---- MODULE Spec2Model ----
(***************************************************************************)
(* A model of the negotiation protocol engine, NegotiationEnv of           *)
(* src/sandbox.py: reset, step and the handlers step calls.                *)
(*                                                                         *)
(* An action text is a sequence of tokens (the words and punctuation marks *)
(* of the text, in order, separated by single blanks); the regular         *)
(* expressions of the engine are modelled by what they match on such a     *)
(* sequence.  A Python dict is a function whose DOMAIN is the dict's key   *)
(* set, so that a lookup of a key the dict does not hold is visible.  An   *)
(* Optional value is a sequence of length 0 (None) or 1.                   *)
(*                                                                         *)
(* ta.State (turn, terminated, set_invalid_move, step) is no part of       *)
(* src/; it is modelled from sections 4, 6 and 7 of the specification.     *)
(* The two input(...) calls of _check_for_new_offer read a line from the   *)
(* console and return; they change no state and are not modelled.          *)
(***************************************************************************)
EXTENDS Integers, Sequences, FiniteSets, TLC

VARIABLES
    seed,              \* the seed of the latest reset
    player_resources,  \* game_state["player_resources"]
    player_values,     \* game_state["player_values"]
    inventory_value,   \* game_state["inventory_value"]
    current_offer,     \* game_state["current_offer"]: <<>> (None) or <<offer>>
    turn,              \* state.turn
    terminated,        \* state.terminated
    invalid_move,      \* player ids of the fault reported by the latest step
    raised,            \* the exception the latest step ended in, or "none"
    last_player,       \* player_id of the latest step (-1: none yet)
    last_action,       \* action text of the latest step
    outcome,           \* what set_draw / set_winner recorded, or "none"
    list_text,         \* the text given to _parse_resource_list on its own
    list_parsed,       \* <<>>, or <<what _parse_resource_list returned for it>>
    self_resources,    \* self.resources of the negotiation environment
    self_resource_values, \* self.resource_values of the negotiation environment
    secret_codes,      \* MastermindEnv: self.secret_codes
    guesses,           \* MastermindEnv: self.guesses
    mm_player_id,      \* MastermindEnv: state.current_player_id
    mm_winners,        \* MastermindEnv: what set_winners recorded, or <<>>
    mm_invalid_move,   \* MastermindEnv: player ids of the latest step's fault
    mm_pegs,           \* MastermindEnv: <<>>, or <<_evaluate_guess of the latest step>>
    mm_action,         \* MastermindEnv: the action text of the latest or next step
    target_words,      \* DontSayItEnv: game_state["target_words"]
    dsi_winners,       \* DontSayItEnv: what set_winners recorded, or <<>>
    dsi_player_id,     \* DontSayItEnv: player_id of the latest step (-1: none yet)
    dsi_action         \* DontSayItEnv: the message of the latest step

vars == <<seed, player_resources, player_values, inventory_value, current_offer,
          turn, terminated, invalid_move, raised, last_player, last_action,
          outcome, list_text, list_parsed, self_resources,
          self_resource_values,
          secret_codes, guesses, mm_player_id, mm_winners, mm_invalid_move,
          mm_pegs, mm_action, target_words, dsi_winners, dsi_player_id,
          dsi_action>>

\* the state of the negotiation environment
negVars == <<seed, player_resources, player_values, inventory_value,
             current_offer, turn, terminated, invalid_move, raised,
             last_player, last_action, outcome, list_text, list_parsed,
             self_resources, self_resource_values>>

\* the state of the Mastermind environment
mmVars == <<secret_codes, guesses, mm_player_id, mm_winners, mm_invalid_move,
            mm_pegs, mm_action>>

\* the state of the Don't Say It environment
dsiVars == <<target_words, dsi_winners, dsi_player_id, dsi_action>>

\* no Mastermind environment has been constructed
MastermindIdle ==
    /\ secret_codes = <<>>
    /\ guesses = <<>>
    /\ mm_player_id = -1
    /\ mm_winners = <<>>
    /\ mm_invalid_move = <<>>
    /\ mm_pegs = <<>>
    /\ mm_action = <<>>

\* no Don't Say It environment has been constructed
DontSayItIdle ==
    /\ target_words = <<>>
    /\ dsi_winners = <<>>
    /\ dsi_player_id = -1
    /\ dsi_action = <<>>

-----------------------------------------------------------------------------
(* Bounds of the model *)

\* seeds 0..MaxSeed are given to reset
MaxSeed == 3

\* _determine_winnner is given valuation changes of -MaxGain..MaxGain
MaxGain == 5

\* the configured turn limit (the constructor's default is 10)
max_turns == 3

\* MastermindEnv: the configured self.code_length (the default is 4)
code_length == 3

\* MastermindEnv: the configured self.num_numbers (the default is 6)
num_numbers == 3

\* _parse_resource_list is given texts of at most MaxListLen words
MaxListLen == 3

-----------------------------------------------------------------------------
(* Constants of the program *)

Players == {0, 1}

resource_names == <<"Wheat", "Wood", "Sheep", "Brick", "Ore">>

ResourceSet == {resource_names[i] : i \in 1..Len(resource_names)}

base_values == [Wheat |-> 5, Wood |-> 10, Sheep |-> 15, Brick |-> 25, Ore |-> 40]

None == <<>>

EmptyDict == [r \in {} |-> 0]

Min(S) == CHOOSE x \in S : \A y \in S : x <= y

-----------------------------------------------------------------------------
(* reset *)

\* The k-th draw of random.randint(lo, hi) after random.seed(s): a value of
\* lo..hi fixed by the seed.  The generator's own stream is not reproduced;
\* a linear congruence over the same range stands for it.
randint(s, k, lo, hi) == lo + ((7 * s + k * (s + 3)) % (hi - lo + 1))

ResourceIndex(r) == CHOOSE i \in 1..Len(resource_names) : resource_names[i] = r

\* lines 62-65 with random.randint(0, 25)
initial_resources_from_zero(s) ==
    [p \in Players |->
        [r \in ResourceSet |-> randint(s, 5 * p + ResourceIndex(r), 0, 25)]]

\* lines 62-65: the stock of both players, draws 1..10 of the stream
initial_resources(s) ==
    [p \in Players |->
        [r \in ResourceSet |-> randint(s, 5 * p + ResourceIndex(r), 5, 25)]]

\* lines 70-78 without the max(..., 5) and min(..., 40) of lines 75-76
initial_values_unclamped(s) ==
    [p \in Players |->
        [r \in ResourceSet |->
            LET base_value == base_values[r]
                variation == (2 * base_value) \div 10
            IN  randint(s, 10 + 5 * p + ResourceIndex(r),
                        base_value - variation, base_value + variation)]]

\* lines 70-78: the private values, draws 11..20 of the stream
initial_values(s) ==
    [p \in Players |->
        [r \in ResourceSet |->
            LET base_value == base_values[r]
                variation == (2 * base_value) \div 10
                min_value == IF base_value - variation > 5
                             THEN base_value - variation ELSE 5
                max_value == IF base_value + variation < 40
                             THEN base_value + variation ELSE 40
            IN  randint(s, 10 + 5 * p + ResourceIndex(r), min_value, max_value)]]

RECURSIVE SumOver(_, _, _)
SumOver(S, resources, values) ==
    IF S = {} THEN 0
    ELSE LET r == CHOOSE x \in S : TRUE
         IN  resources[r] * values[r] + SumOver(S \ {r}, resources, values)

\* lines 431-442 with line 441 summing the quantities alone
_calculate_player_inventory_value_counts(player_id, resources, values) ==
    SumOver(DOMAIN resources[player_id], resources[player_id],
            [r \in DOMAIN resources[player_id] |-> 1])

\* lines 431-442
_calculate_player_inventory_value(player_id, resources, values) ==
    SumOver(DOMAIN resources[player_id], resources[player_id], values[player_id])

\* lines 81-92
initial_inventory_value(s) ==
    [p \in Players |->
        [initial |-> _calculate_player_inventory_value(
                         p, initial_resources(s), initial_values(s)),
         current |-> _calculate_player_inventory_value(
                         p, initial_resources(s), initial_values(s)),
         change  |-> 0]]

\* lines 105-124: the fields the prompt text is formatted from, in the order
\* of self.resources.keys()
_generate_player_prompt(player_id) ==
    [player_id |-> player_id,
     resource_value_list |->
        [i \in 1..Len(resource_names) |->
            <<self_resources[resource_names[i]], resource_names[i],
              self_resource_values[resource_names[i]]>>],
     max_turns |-> max_turns]

\* the state after reset(seed = s)
AfterReset(s) ==
    /\ seed' = s
    /\ player_resources' = initial_resources(s)
    /\ player_values' = initial_values(s)
    /\ inventory_value' = initial_inventory_value(s)
    /\ current_offer' = None
    /\ turn' = 0
    /\ terminated' = FALSE
    /\ invalid_move' = <<>>
    /\ raised' = "none"
    /\ last_player' = -1
    /\ last_action' = <<>>
    /\ outcome' = "none"
    \* lines 95-96: player_id is what the loop of line 71 left in it, 1
    /\ self_resources' = initial_resources(s)[1]
    /\ self_resource_values' = initial_values(s)[1]
    /\ UNCHANGED <<list_text, list_parsed, mmVars, dsiVars>>

Init ==
    \E s \in 0..MaxSeed :
        /\ seed = s
        /\ player_resources = initial_resources(s)
        /\ player_values = initial_values(s)
        /\ inventory_value = initial_inventory_value(s)
        /\ current_offer = None
        /\ turn = 0
        /\ terminated = FALSE
        /\ invalid_move = <<>>
        /\ raised = "none"
        /\ last_player = -1
        /\ last_action = <<>>
        /\ outcome = "none"
        /\ list_text = <<>>
        /\ list_parsed = <<>>
        /\ self_resources = initial_resources(s)[1]
        /\ self_resource_values = initial_values(s)[1]
        /\ MastermindIdle
        /\ DontSayItIdle

-----------------------------------------------------------------------------
(* Action texts and the engine's patterns *)

\* str.lower on a token, as re.IGNORECASE compares it
lower(t) ==
    CASE t \in {"[Accept]", "[ACCEPT]"} -> "[accept]"
      [] t \in {"[Deny]", "[DENY]"} -> "[deny]"
      [] t \in {"[Offer]", "[OFFER]"} -> "[offer]"
      [] t = "I" -> "i"
      [] t \in {"You", "YOU"} -> "you"
      [] t \in {"Give", "GIVE"} -> "give"
      [] OTHER -> t

\* str.title on a one-word resource name (line 375)
title(t) ==
    CASE t \in {"wheat", "WHEAT", "wHEAT"} -> "Wheat"
      [] t \in {"wood", "WOOD"} -> "Wood"
      [] t \in {"sheep", "SHEEP"} -> "Sheep"
      [] t \in {"brick", "BRICK"} -> "Brick"
      [] t \in {"ore", "ORE"} -> "Ore"
      [] t = "some" -> "Some"
      [] t = "stuff" -> "Stuff"
      [] OTHER -> t

\* the tokens int() accepts, and their values (line 374)
IntLiterals == {"-1", "0", "1", "2", "3", "4", "5", "30"}

int(t) ==
    CASE t = "-1" -> -1
      [] t = "0" -> 0
      [] t = "1" -> 1
      [] t = "2" -> 2
      [] t = "3" -> 3
      [] t = "4" -> 4
      [] t = "5" -> 5
      [] t = "30" -> 30

\* line 38 and line 214: accept_pattern.search(action)
accept_match(action) ==
    \E i \in 1..Len(action) : lower(action[i]) = "[accept]"

\* line 39 and line 215: deny_pattern.search(action)
deny_match(action) ==
    \E i \in 1..Len(action) : lower(action[i]) = "[deny]"

\* line 40 and lines 310-313: offer_pattern.search(action), then group(1):
\* the text between the leftmost [Offer] that a full stop follows and the
\* first full stop after it; None when there is no such [Offer]
offer_match(action) ==
    LET starts == {i \in 1..Len(action) :
                      /\ lower(action[i]) = "[offer]"
                      /\ \E j \in (i + 1)..Len(action) : action[j] = "."}
    IN  IF starts = {} THEN None
        ELSE LET i == Min(starts)
                 j == Min({k \in (i + 1)..Len(action) : action[k] = "."})
             IN  <<SubSeq(action, i + 1, j - 1)>>

\* line 366, the alternative and\s* of the pattern: it matches the letters
\* "and" wherever they stand, also inside a word; what is left of the word
\* around them, with "," for the split
and_split(t) ==
    CASE t = "and" -> <<",">>
      [] t = "wheatand" -> <<"wheat", ",">>
      [] t = "and2" -> <<",", "2">>
      [] OTHER -> <<t>>

RECURSIVE separate(_)
separate(toks) ==
    IF toks = <<>> THEN <<>>
    ELSE and_split(Head(toks)) \o separate(Tail(toks))

\* line 366: re.split(r',\s*|and\s*', resource_str), the items in order
RECURSIVE split_items(_, _, _)
split_items(toks, cur, acc) ==
    IF toks = <<>> THEN Append(acc, cur)
    ELSE IF Head(toks) = ","
         THEN split_items(Tail(toks), <<>>, Append(acc, cur))
         ELSE split_items(Tail(toks), Append(cur, Head(toks)), acc)

\* lines 369-380 without the test qty <= 0 of line 376
item_valid_any_qty(item) ==
    \/ Len(item) = 0
    \/ /\ Len(item) = 2
       /\ item[1] \in IntLiterals
       /\ title(item[2]) \in ResourceSet

\* lines 369-380, one item: skipped when empty; otherwise it must split at its
\* first blank into a quantity int() accepts and is > 0, and a name whose
\* title() is one of resource_names
item_valid(item) ==
    \/ Len(item) = 0
    \/ /\ Len(item) = 2
       /\ item[1] \in IntLiterals
       /\ title(item[2]) \in ResourceSet
       /\ int(item[1]) > 0

\* lines 360-381: None (ok = FALSE) as soon as one item is invalid; otherwise
\* the dict, in which a later item of the same resource replaces an earlier
_parse_resource_list(resource_str) ==
    LET resource_list == split_items(separate(resource_str), <<>>, <<>>)
        idx == {i \in 1..Len(resource_list) : Len(resource_list[i]) > 0}
    IN  IF \E i \in 1..Len(resource_list) : ~item_valid(resource_list[i])
        THEN [ok |-> FALSE, items |-> EmptyDict]
        ELSE [ok |-> TRUE,
              items |->
                [r \in {title(resource_list[i][2]) : i \in idx} |->
                    LET last == CHOOSE i \in idx :
                                   /\ title(resource_list[i][2]) = r
                                   /\ \A k \in idx :
                                        title(resource_list[k][2]) = r => k <= i
                    IN  int(resource_list[last][1])]]

\* lines 330-358: None, or the parsed offer
_parse_offer(offer_str) ==
    LET cuts == {k \in 1..(Len(offer_str) - 2) :
                    /\ offer_str[k] = ";"
                    /\ lower(offer_str[k + 1]) = "you"
                    /\ lower(offer_str[k + 2]) = "give"}
    IN  IF Cardinality(cuts) # 1 THEN None
        ELSE LET k == CHOOSE x \in cuts : TRUE
                 part0 == SubSeq(offer_str, 1, k - 1)
                 part1 == SubSeq(offer_str, k + 3, Len(offer_str))
                 offered_items_str ==
                     IF /\ Len(part0) >= 2
                        /\ lower(part0[1]) = "i"
                        /\ lower(part0[2]) = "give"
                     THEN SubSeq(part0, 3, Len(part0))
                     ELSE part0
                 offered_items == _parse_resource_list(offered_items_str)
                 requested_items == _parse_resource_list(part1)
             IN  IF \/ ~offered_items.ok
                    \/ ~requested_items.ok
                    \/ DOMAIN offered_items.items = {}
                    \/ DOMAIN requested_items.items = {}
                 THEN None
                 ELSE <<[offered_items |-> offered_items.items,
                         requested_items |-> requested_items.items]>>

\* str(qty) in the f-strings of lines 387-388
str(n) ==
    CASE n = 0 -> "0"
      [] n = 1 -> "1"
      [] n = 2 -> "2"
      [] n = 3 -> "3"
      [] n = 4 -> "4"
      [] n = 5 -> "5"
      [] n = 30 -> "30"

\* lines 387-388: ", ".join(f"{qty} {res}" for res, qty in items.items());
\* keys is the order in which the dict holds its keys
RECURSIVE join_items(_, _)
join_items(items, keys) ==
    IF keys = <<>> THEN <<>>
    ELSE <<str(items[Head(keys)]), Head(keys)>>
             \o (IF Len(keys) > 1 THEN <<",">> ELSE <<>>)
             \o join_items(items, Tail(keys))

\* lines 383-389: "Offered items: ...; Requested items: ..."
_offer_to_str(parsed_offer, offered_keys, requested_keys) ==
    <<"Offered", "items:">>
        \o join_items(parsed_offer.offered_items, offered_keys)
        \o <<";", "Requested", "items:">>
        \o join_items(parsed_offer.requested_items, requested_keys)

\* the orders in which a dict may hold the keys S
KeyOrders(S) ==
    {q \in [1..Cardinality(S) -> S] :
        \A i, j \in 1..Cardinality(S) : q[i] = q[j] => i = j}

-----------------------------------------------------------------------------
(* The texts given to step *)

Chat == <<"hello", "there">>

AcceptText == <<"[Accept]", "deal">>

DenyText == <<"no", "thanks", "[deny]">>

AcceptDenyText == <<"[Deny]", "or", "[ACCEPT]">>

\* both sides hold the quantities, whatever reset drew
OfferSmall ==
    <<"[Offer]", "I", "give", "2", "Wheat", ",", "1", "Ore", ";",
      "You", "give", "3", "Sheep", ".">>

\* no proposer holds 30 Wood
OfferProposerShort ==
    <<"[offer]", "i", "give", "30", "wood", ";", "you", "give", "1", "brick", ".">>

\* no responder holds 30 Wood
OfferResponderShort ==
    <<"so", "[Offer]", "I", "give", "1", "Brick", ";", "You", "give", "30", "Wood", ".">>

\* neither side holds the quantities
OfferBothShort ==
    <<"[Offer]", "I", "give", "30", "Wheat", "and", "30", "Ore", ";",
      "You", "give", "30", "Sheep", ".">>

DenyAndOffer ==
    <<"[Deny]", "[Offer]", "I", "give", "1", "Wood", ";", "You", "give", "1", "Wheat", ".">>

AcceptAndOffer ==
    <<"[Accept]", "[Offer]", "I", "give", "1", "Wood", ";", "You", "give", "1", "Wheat", ".">>

OfferMalformed ==
    <<"[Offer]", "I", "give", "some", "wheat", ";", "You", "give", "stuff", ".">>

\* no "; You give": the split of line 341 yields one part
OfferNoSplit == <<"[Offer]", "I", "give", "2", "Wheat", ".">>

\* "; You give" twice: the split yields three parts
OfferTwoSplits ==
    <<"[Offer]", "I", "give", "1", "Ore", ";", "You", "give", "1", "Wood", ";",
      "You", "give", "1", "Wheat", ".">>

\* the "I give" list is empty
OfferEmptyList == <<"[Offer]", "I", "give", ";", "You", "give", "3", "Sheep", ".">>

\* a quantity of 0
OfferZeroQty ==
    <<"[Offer]", "I", "give", "0", "Wheat", ";", "You", "give", "1", "Ore", ".">>

\* a resource the game does not have, beside a valid item
OfferUnknown ==
    <<"[Offer]", "I", "give", "2", "Gold", ",", "1", "Ore", ";",
      "You", "give", "1", "Wheat", ".">>

Actions ==
    {Chat, AcceptText, DenyText, AcceptDenyText, OfferSmall, OfferProposerShort,
     OfferResponderShort, OfferBothShort, DenyAndOffer, AcceptAndOffer,
     OfferMalformed, OfferNoSplit, OfferTwoSplits, OfferEmptyList, OfferZeroQty,
     OfferUnknown}

-----------------------------------------------------------------------------
(* step and its handlers.  A handler takes the game g of the step so far    *)
(* and returns the game after it; g.raised names the exception that ended   *)
(* the step, after which nothing more of the step runs.                     *)

\* ta.State.set_invalid_move: the fault is reported to the harness, which owns
\* termination; escalate is the harness's choice to end the episode on it
set_invalid_move(g, player_ids, escalate) ==
    [g EXCEPT !.invalid_move = player_ids, !.terminated = escalate]

\* lines 284-298 with the comparison of line 296 turned round
_check_if_sufficient_resources_reversed(trade_resources, resources) ==
    \A r \in DOMAIN trade_resources :
        (IF r \in DOMAIN resources THEN resources[r] ELSE 0) <= trade_resources[r]

\* lines 284-298; player_resources.get(resource, 0)
_check_if_sufficient_resources(trade_resources, resources) ==
    \A r \in DOMAIN trade_resources :
        (IF r \in DOMAIN resources THEN resources[r] ELSE 0) >= trade_resources[r]

Qty(items, r) == IF r \in DOMAIN items THEN items[r] ELSE 0

\* lines 237-242 without line 242, the credit of the requested items
execute_trade_no_credit(resources, proposer_id, player_id, proposer_items, acceptor_items) ==
    [p \in DOMAIN resources |->
        [r \in DOMAIN resources[p] |->
            resources[p][r]
            - (IF p = proposer_id THEN Qty(proposer_items, r) ELSE 0)
            + (IF p = player_id THEN Qty(proposer_items, r) ELSE 0)
            - (IF p = player_id THEN Qty(acceptor_items, r) ELSE 0)]]

\* lines 237-242: the two loops of -= and += on the ledgers
execute_trade(resources, proposer_id, player_id, proposer_items, acceptor_items) ==
    [p \in DOMAIN resources |->
        [r \in DOMAIN resources[p] |->
            resources[p][r]
            - (IF p = proposer_id THEN Qty(proposer_items, r) ELSE 0)
            + (IF p = player_id THEN Qty(proposer_items, r) ELSE 0)
            - (IF p = player_id THEN Qty(acceptor_items, r) ELSE 0)
            + (IF p = proposer_id THEN Qty(acceptor_items, r) ELSE 0)]]

\* lines 413-429: line 419 reads self.game_state, an attribute the
\* environment never sets (the game state is self.state.game_state)
_update_inventory_values(g) ==
    [g EXCEPT !.raised = "AttributeError"]

\* lines 217-266, the branch of an [Accept]: lines 220-221 look up the keys
\* "offered_resources" and "requested_resources" of current_offer
accept_offer(g, player_id, offer, escalate) ==
    IF ~({"offered_resources", "requested_resources"} \subseteq DOMAIN offer)
    THEN [g EXCEPT !.raised = "KeyError"]
    ELSE LET proposer_id == offer.from_player
             proposer_items == offer.offered_resources
             acceptor_items == offer.requested_resources
             proposer_valid == _check_if_sufficient_resources(
                                   proposer_items, g.player_resources[proposer_id])
             acceptor_valid == _check_if_sufficient_resources(
                                   acceptor_items, g.player_resources[player_id])
         IN  IF proposer_valid /\ acceptor_valid
             THEN _update_inventory_values(
                      [g EXCEPT !.player_resources =
                          execute_trade(g.player_resources, proposer_id, player_id,
                                        proposer_items, acceptor_items)])
             ELSE set_invalid_move(
                      g,
                      (IF ~proposer_valid THEN <<proposer_id>> ELSE <<>>)
                          \o (IF ~acceptor_valid THEN <<player_id>> ELSE <<>>),
                      escalate)

\* lines 205-282 with the fault of line 280 naming the other player
_check_and_execute_existing_offer_other(g, player_id, action, escalate) ==
    IF g.current_offer = None THEN g
    ELSE IF accept_match(action)
         THEN accept_offer(g, player_id, g.current_offer[1], escalate)
         ELSE IF deny_match(action)
              THEN [g EXCEPT !.current_offer = None]
              ELSE set_invalid_move(g, <<1 - player_id>>, escalate)

\* lines 205-282
_check_and_execute_existing_offer(g, player_id, action, escalate) ==
    IF g.current_offer = None THEN g
    ELSE IF accept_match(action)
         THEN accept_offer(g, player_id, g.current_offer[1], escalate)
         ELSE IF deny_match(action)
              THEN [g EXCEPT !.current_offer = None]
              ELSE set_invalid_move(g, <<player_id>>, escalate)

\* lines 303-327 taking the offered items out of the proposer's stock when the
\* offer is recorded
_check_for_new_offer_escrow(g, player_id, action) ==
    IF g.terminated THEN g
    ELSE LET offer_text == offer_match(action)
         IN  IF offer_text = None THEN g
             ELSE LET parsed_offer == _parse_offer(offer_text[1])
                  IN  IF parsed_offer = None THEN g
                      ELSE [g EXCEPT
                               !.current_offer =
                                   <<[from_player |-> player_id,
                                      to_player |-> 1 - player_id,
                                      offer |-> parsed_offer[1]]>>,
                               !.player_resources[player_id] =
                                   [r \in DOMAIN @ |->
                                       @[r] - Qty(parsed_offer[1].offered_items, r)]]

\* lines 303-327 with from_player and to_player of lines 319-320 exchanged
_check_for_new_offer_swapped(g, player_id, action) ==
    IF g.terminated THEN g
    ELSE LET offer_text == offer_match(action)
         IN  IF offer_text = None THEN g
             ELSE LET parsed_offer == _parse_offer(offer_text[1])
                  IN  IF parsed_offer = None THEN g
                      ELSE [g EXCEPT !.current_offer =
                               <<[from_player |-> 1 - player_id,
                                  to_player |-> player_id,
                                  offer |-> parsed_offer[1]]>>]

\* lines 303-327 with to_player of line 320 set to player_id
_check_for_new_offer_to_self(g, player_id, action) ==
    IF g.terminated THEN g
    ELSE LET offer_text == offer_match(action)
         IN  IF offer_text = None THEN g
             ELSE LET parsed_offer == _parse_offer(offer_text[1])
                  IN  IF parsed_offer = None THEN g
                      ELSE [g EXCEPT !.current_offer =
                               <<[from_player |-> player_id,
                                  to_player |-> player_id,
                                  offer |-> parsed_offer[1]]>>]

\* lines 303-327
_check_for_new_offer(g, player_id, action) ==
    IF g.terminated THEN g
    ELSE LET offer_text == offer_match(action)
         IN  IF offer_text = None THEN g
             ELSE LET parsed_offer == _parse_offer(offer_text[1])
                  IN  IF parsed_offer = None THEN g
                      ELSE [g EXCEPT !.current_offer =
                               <<[from_player |-> player_id,
                                  to_player |-> 1 - player_id,
                                  offer |-> parsed_offer[1]]>>]

\* lines 392-410 with the comparison of line 406 turned round
_determine_winnner_reversed(values) ==
    LET p0_gain == values[0].change
        p1_gain == values[1].change
    IN  IF p0_gain = p1_gain THEN "draw"
        ELSE IF p0_gain < p1_gain THEN "winner0" ELSE "winner1"

\* lines 392-410: what _determine_winnner hands to set_draw or set_winner, read
\* from game_state["inventory_value"]
_determine_winnner(values) ==
    LET p0_gain == values[0].change
        p1_gain == values[1].change
    IN  IF p0_gain = p1_gain THEN "draw"
        ELSE IF p0_gain > p1_gain THEN "winner0" ELSE "winner1"

\* lines 199-201: step calls self._determine_winner(), a name the class does
\* not define (line 392 defines _determine_winnner)
turn_limit(g) ==
    IF turn = max_turns THEN [g EXCEPT !.raised = "AttributeError"] ELSE g

\* lines 143-203: the game after step(player_id, action)
step(player_id, action, escalate) ==
    LET g0 == [player_resources |-> player_resources,
               inventory_value |-> inventory_value,
               current_offer |-> current_offer,
               terminated |-> terminated,
               invalid_move |-> <<>>,
               raised |-> "none"]
        g1 == _check_and_execute_existing_offer(g0, player_id, action, escalate)
        g2 == IF g1.raised = "none"
              THEN _check_for_new_offer(g1, player_id, action) ELSE g1
    IN  IF g2.raised = "none" THEN turn_limit(g2) ELSE g2

\* One call of step by the harness.  state.step() (line 203) advances the turn
\* counter; it is not reached when the step raised.  The harness gives no
\* turn once the episode is terminated.
Step(player_id, action, escalate) ==
    /\ ~terminated
    /\ \E g \in {step(player_id, action, escalate)} :
           /\ player_resources' = g.player_resources
           /\ inventory_value' = g.inventory_value
           /\ current_offer' = g.current_offer
           /\ terminated' = g.terminated
           /\ invalid_move' = g.invalid_move
           /\ raised' = g.raised
           /\ turn' = IF g.raised = "none" THEN turn + 1 ELSE turn
    /\ last_player' = player_id
    /\ last_action' = action
    \* self.resources is the dict game_state["player_resources"][1] itself
    /\ self_resources' = player_resources'[1]
    /\ UNCHANGED <<seed, player_values, outcome, list_text, list_parsed,
                   self_resource_values, mmVars, dsiVars>>

\* lines 42-102: a new episode
Reset(s) == AfterReset(s)

Next ==
    \/ \E player_id \in Players, action \in Actions, escalate \in BOOLEAN :
          Step(player_id, action, escalate)
    \/ \E s \in 0..MaxSeed : Reset(s)

Spec == Init /\ [][Next]_vars

-----------------------------------------------------------------------------
(* _determine_winnner on its own: step never calls it (see turn_limit), so   *)
(* it is applied here to the valuations of an episode at its turn limit,    *)
(* with every pair of changes of -MaxGain..MaxGain.                         *)

InitWinner ==
    \E c0, c1 \in (-MaxGain)..MaxGain :
        /\ seed = 0
        /\ player_resources = initial_resources(0)
        /\ player_values = initial_values(0)
        /\ inventory_value =
              [p \in Players |->
                  LET c == IF p = 0 THEN c0 ELSE c1
                      initial == initial_inventory_value(0)[p].initial
                  IN  [initial |-> initial, current |-> initial + c, change |-> c]]
        /\ current_offer = None
        /\ turn = max_turns
        /\ terminated = FALSE
        /\ invalid_move = <<>>
        /\ raised = "none"
        /\ last_player = -1
        /\ last_action = <<>>
        /\ outcome = "none"
        /\ list_text = <<>>
        /\ list_parsed = <<>>
        /\ self_resources = initial_resources(0)[1]
        /\ self_resource_values = initial_values(0)[1]
        /\ MastermindIdle
        /\ DontSayItIdle

DetermineWinner ==
    /\ outcome = "none"
    /\ outcome' = _determine_winnner(inventory_value)
    /\ UNCHANGED <<seed, player_resources, player_values, inventory_value,
                   current_offer, turn, terminated, invalid_move, raised,
                   last_player, last_action, list_text, list_parsed,
                   self_resources, self_resource_values, mmVars, dsiVars>>

NextWinner == DetermineWinner

SpecWinner == InitWinner /\ [][NextWinner]_vars

-----------------------------------------------------------------------------
(* _parse_resource_list on its own *)

\* the words of the texts given to _parse_resource_list
ListWords == {"2", "0", "x", "Wheat", "ore", "Gold", ",", "and", "wheatand", "and2"}

ListTexts == UNION {[1..n -> ListWords] : n \in 0..MaxListLen}

InitParse ==
    /\ list_text \in ListTexts
    /\ list_parsed = <<>>
    /\ seed = 0
    /\ player_resources = initial_resources(0)
    /\ player_values = initial_values(0)
    /\ inventory_value = initial_inventory_value(0)
    /\ current_offer = None
    /\ turn = 0
    /\ terminated = FALSE
    /\ invalid_move = <<>>
    /\ raised = "none"
    /\ last_player = -1
    /\ last_action = <<>>
    /\ outcome = "none"
    /\ self_resources = initial_resources(0)[1]
    /\ self_resource_values = initial_values(0)[1]
    /\ MastermindIdle
    /\ DontSayItIdle

ParseList ==
    /\ list_parsed = <<>>
    /\ list_parsed' = <<_parse_resource_list(list_text)>>
    /\ UNCHANGED <<seed, player_resources, player_values, inventory_value,
                   current_offer, turn, terminated, invalid_move, raised,
                   last_player, last_action, outcome, list_text,
                   self_resources, self_resource_values, mmVars, dsiVars>>

NextParse == ParseList

SpecParse == InitParse /\ [][NextParse]_vars

-----------------------------------------------------------------------------
(* MastermindEnv.  A guess text is a sequence of tokens in which "[" and   *)
(* "]" stand next to their neighbours without a blank.  ta.State is no     *)
(* part of src/: set_invalid_move and set_winners record their argument,   *)
(* and state.step() hands the next turn to the other player, or to the     *)
(* same player again after a fault.                                        *)

\* lines 70-76: the codes random.sample and random.choices can draw
Codes == [1..code_length -> 1..num_numbers]

\* \d+ of line 139
is_digits(t) == t \in IntLiterals /\ int(t) >= 0

\* lines 139-140: action_search_pattern.search(action), then group(1).split():
\* the number tokens of the leftmost "[" that numbers and a "]" follow
guess_match(action) ==
    LET ends(i) == {j \in (i + 2)..Len(action) :
                       /\ action[j] = "]"
                       /\ \A k \in (i + 1)..(j - 1) : is_digits(action[k])}
        starts == {i \in 1..Len(action) : action[i] = "[" /\ ends(i) # {}}
    IN  IF starts = {} THEN None
        ELSE LET i == Min(starts)
             IN  <<SubSeq(action, i + 1, Min(ends(i)) - 1)>>

\* lines 217-223, the guess positions from i on: each unmatched position of
\* the guess takes the first unused position of the code holding its number
RECURSIVE white_loop(_, _, _, _, _)
white_loop(i, player_guess, opponent_code, matched_guess, matched_code) ==
    IF i > code_length THEN 0
    ELSE LET js == {j \in 1..code_length :
                       ~matched_code[j] /\ player_guess[i] = opponent_code[j]}
         IN  IF matched_guess[i] \/ js = {}
             THEN white_loop(i + 1, player_guess, opponent_code,
                             matched_guess, matched_code)
             ELSE 1 + white_loop(i + 1, player_guess, opponent_code, matched_guess,
                                 [matched_code EXCEPT ![Min(js)] = TRUE])

\* lines 217-223 without line 222: a position of the code is never marked used
RECURSIVE white_loop_unmarked(_, _, _, _, _)
white_loop_unmarked(i, player_guess, opponent_code, matched_guess, matched_code) ==
    IF i > code_length THEN 0
    ELSE LET js == {j \in 1..code_length :
                       ~matched_code[j] /\ player_guess[i] = opponent_code[j]}
         IN  (IF matched_guess[i] \/ js = {} THEN 0 ELSE 1)
                 + white_loop_unmarked(i + 1, player_guess, opponent_code,
                                       matched_guess, matched_code)

\* lines 189-225 with the second loop never marking a code position used
_evaluate_guess_unmarked(codes, player_id, player_guess) ==
    LET opponent_code == codes[1 - player_id]
        matched == [i \in 1..code_length |-> player_guess[i] = opponent_code[i]]
    IN  [black_pegs |-> Cardinality({i \in 1..code_length : matched[i]}),
         white_pegs |-> white_loop_unmarked(1, player_guess, opponent_code,
                                            matched, matched)]

\* lines 189-225
_evaluate_guess(codes, player_id, player_guess) ==
    LET opponent_code == codes[1 - player_id]
        matched == [i \in 1..code_length |-> player_guess[i] = opponent_code[i]]
    IN  [black_pegs |-> Cardinality({i \in 1..code_length : matched[i]}),
         white_pegs |-> white_loop(1, player_guess, opponent_code,
                                   matched, matched)]

\* lines 128-187: what one step leaves in guesses, the fault, the winners and
\* the pegs
mastermind_step(player_id, action) ==
    LET match == guess_match(action)
        idle == [guesses |-> guesses, invalid_move |-> <<>>, winners |-> <<>>,
                 pegs |-> <<>>]
    IN  IF match = None
        THEN [idle EXCEPT !.invalid_move = <<player_id>>]
        ELSE LET player_guess == [i \in 1..Len(match[1]) |-> int(match[1][i])]
             IN  IF Len(player_guess) # code_length
                 THEN [idle EXCEPT !.invalid_move = <<player_id>>]
                 ELSE LET pegs == _evaluate_guess(secret_codes, player_id, player_guess)
                          g == [idle EXCEPT
                                   !.pegs = <<pegs>>,
                                   !.guesses = [guesses EXCEPT ![player_id] = player_guess]]
                      IN  IF \E i \in 1..code_length : player_guess[i] > num_numbers
                          THEN [g EXCEPT !.invalid_move = <<player_id>>]
                          ELSE IF pegs.black_pegs = code_length
                               THEN [g EXCEPT !.winners = <<player_id>>]
                               ELSE g

\* the guess text "[d1 d2 ...]" of the numbers f
GuessText(f) == <<"[">> \o [i \in 1..Len(f) |-> str(f[i])] \o <<"]">>

\* two codes, the second the first shifted by one number
SomeCodes == {[i \in 1..code_length |-> 1 + ((i + k) % num_numbers)] : k \in 0..1}

\* the texts given to step: the two codes, one of them with a 0 and with
\* num_numbers + 1 in its first place, after some words, too short, and
\* without brackets
MastermindActions ==
    {GuessText(c) : c \in SomeCodes}
        \cup {GuessText([c EXCEPT ![1] = d]) : c \in SomeCodes, d \in {0, num_numbers + 1}}
        \cup {<<"I", "guess">> \o GuessText(c) : c \in SomeCodes}
        \cup {GuessText(Tail(c)) : c \in SomeCodes}
        \cup {<<"1", "2", "3">>, <<"[", "x", "]">>}

\* lines 40-60: reset
MastermindAfterReset ==
    /\ secret_codes' \in [Players -> SomeCodes]
    /\ guesses' = [p \in Players |-> <<>>]
    /\ mm_player_id' = 0
    /\ mm_winners' = <<>>
    /\ mm_invalid_move' = <<>>
    /\ mm_pegs' = <<>>
    /\ mm_action' = <<>>

NegotiationIdle ==
    /\ seed = 0
    /\ player_resources = initial_resources(0)
    /\ player_values = initial_values(0)
    /\ inventory_value = initial_inventory_value(0)
    /\ current_offer = None
    /\ turn = 0
    /\ terminated = FALSE
    /\ invalid_move = <<>>
    /\ raised = "none"
    /\ last_player = -1
    /\ last_action = <<>>
    /\ outcome = "none"
    /\ list_text = <<>>
    /\ list_parsed = <<>>
    /\ self_resources = initial_resources(0)[1]
    /\ self_resource_values = initial_values(0)[1]

InitMastermind ==
    /\ secret_codes \in [Players -> SomeCodes]
    /\ guesses = [p \in Players |-> <<>>]
    /\ mm_player_id = 0
    /\ mm_winners = <<>>
    /\ mm_invalid_move = <<>>
    /\ mm_pegs = <<>>
    /\ mm_action = <<>>
    /\ NegotiationIdle
    /\ DontSayItIdle

\* One call of step.  The harness gives no turn once a winner is set.
MastermindStep(action) ==
    /\ mm_winners = <<>>
    /\ \E g \in {mastermind_step(mm_player_id, action)} :
           /\ guesses' = g.guesses
           /\ mm_invalid_move' = g.invalid_move
           /\ mm_winners' = g.winners
           /\ mm_pegs' = g.pegs
           /\ mm_player_id' = IF g.invalid_move = <<>>
                              THEN 1 - mm_player_id ELSE mm_player_id
    /\ mm_action' = action
    /\ UNCHANGED <<secret_codes, negVars, dsiVars>>

MastermindReset ==
    /\ MastermindAfterReset
    /\ UNCHANGED <<negVars, dsiVars>>

NextMastermind ==
    \/ \E action \in MastermindActions : MastermindStep(action)
    \/ MastermindReset

SpecMastermind == InitMastermind /\ [][NextMastermind]_vars

-----------------------------------------------------------------------------
(* The first step of a Mastermind episode, with every guess of code_length *)
(* numbers of 0..num_numbers + 1: by player 0 against every code of player *)
(* 1, and by player 1 against the codes of SomeCodes.                      *)

Guesses == [1..code_length -> 0..(num_numbers + 1)]

InitPegs ==
    /\ \E p \in Players :
          /\ mm_player_id = p
          /\ \E own \in {[i \in 1..code_length |-> 1]},
                c \in (IF p = 0 THEN Codes ELSE SomeCodes) :
                 secret_codes = [q \in Players |-> IF q = p THEN own ELSE c]
    /\ guesses = [p \in Players |-> <<>>]
    /\ mm_winners = <<>>
    /\ mm_invalid_move = <<>>
    /\ mm_pegs = <<>>
    /\ mm_action = <<>>
    /\ NegotiationIdle
    /\ DontSayItIdle

FirstGuess ==
    /\ mm_action = <<>>
    /\ \E f \in Guesses : MastermindStep(GuessText(f))

NextPegs == FirstGuess

SpecPegs == InitPegs /\ [][NextPegs]_vars

-----------------------------------------------------------------------------
(* DontSayItEnv.  A word or a message is the sequence of its characters.   *)
(* ta.State is no part of src/: set_winners records its argument, and the  *)
(* harness gives no turn once a winner is set.                             *)

\* str.lower on one character
lower_char(c) ==
    CASE c = "A" -> "a"
      [] c = "C" -> "c"
      [] c = "E" -> "e"
      [] c = "H" -> "h"
      [] c = "N" -> "n"
      [] c = "R" -> "r"
      [] c = "S" -> "s"
      [] c = "T" -> "t"
      [] c = "U" -> "u"
      [] OTHER -> c

\* str.lower (line 146)
str_lower(text) == [i \in 1..Len(text) |-> lower_char(text[i])]

\* the operator in of line 146 on two strings: sub occurs in text
str_in(sub, text) ==
    \E i \in 0..(Len(text) - Len(sub)) : SubSeq(text, i + 1, i + Len(sub)) = sub

\* self.word_list (line 54): some words of the list, one with a capital
word_list ==
    {<<"a", "r", "t">>, <<"h", "e", "a", "r", "t">>, <<"c", "a", "t">>,
     <<"S", "u", "n">>}

\* the messages given to step: each word, each word after some text, and in
\* capitals; a message without any of them; the empty message
DontSayItActions ==
    word_list
        \cup {<<"a", " ">> \o w \o <<"!">> : w \in word_list}
        \cup {<<"A", "R", "T">>, <<"H", "E", "A", "R", "T">>, <<"s", "u", "n">>,
              <<"C", "a", "T">>, <<"h", "i">>, <<>>}

\* lines 76-81: two draws of random.choice, the second repeated until the
\* words differ
drawn_target_words == {tw \in [Players -> word_list] : tw[0] # tw[1]}

\* lines 145-150 comparing the opponent's word with the message as typed
dontsayit_step_as_typed(words, winners, player_id, action) ==
    IF str_in(str_lower(words[1 - player_id]), action)
    THEN <<1 - player_id>>
    ELSE winners

\* lines 145-150: the winners after the step
dontsayit_step(words, winners, player_id, action) ==
    IF str_in(str_lower(words[1 - player_id]), str_lower(action))
    THEN <<1 - player_id>>
    ELSE winners

InitDontSayIt ==
    /\ target_words \in drawn_target_words
    /\ dsi_winners = <<>>
    /\ dsi_player_id = -1
    /\ dsi_action = <<>>
    /\ NegotiationIdle
    /\ MastermindIdle

\* lines 110-152: one call of step
DontSayItStep(player_id, action) ==
    /\ dsi_winners = <<>>
    /\ dsi_winners' = dontsayit_step(target_words, dsi_winners, player_id, action)
    /\ dsi_player_id' = player_id
    /\ dsi_action' = action
    /\ UNCHANGED <<target_words, negVars, mmVars>>

\* lines 58-86: reset
DontSayItReset ==
    /\ target_words' \in drawn_target_words
    /\ dsi_winners' = <<>>
    /\ dsi_player_id' = -1
    /\ dsi_action' = <<>>
    /\ UNCHANGED <<negVars, mmVars>>

NextDontSayIt ==
    \/ \E player_id \in Players, action \in DontSayItActions :
          DontSayItStep(player_id, action)
    \/ DontSayItReset

SpecDontSayIt == InitDontSayIt /\ [][NextDontSayIt]_vars

-----------------------------------------------------------------------------
(* What the claims speak of *)

Pending == current_offer # None

Proposer == current_offer[1].from_player

Recipient == current_offer[1].to_player

Offered == current_offer[1].offer.offered_items

Requested == current_offer[1].offer.requested_items

ProposerCovers ==
    _check_if_sufficient_resources(Offered, player_resources[Proposer])

ResponderCovers(p) ==
    _check_if_sufficient_resources(Requested, player_resources[p])

Total(resources, r) == resources[0][r] + resources[1][r]

\* the step that leads to the next state was step(p, a) by the recipient of
\* the pending offer
ResponseBy(p) ==
    /\ Pending
    /\ p = Recipient
    /\ last_player' = p

NoMarker(action) == ~accept_match(action) /\ ~deny_match(action)

\* the ledgers a trade of the pending offer, accepted by player p, must leave
Swapped(p) ==
    [q \in Players |->
        [r \in ResourceSet |->
            IF q = Proposer
            THEN player_resources[q][r] - Qty(Offered, r) + Qty(Requested, r)
            ELSE player_resources[q][r] + Qty(Offered, r) - Qty(Requested, r)]]

\* the sides of the pending offer that are short, proposer first
ShortSides(p) ==
    (IF ~ProposerCovers THEN <<Proposer>> ELSE <<>>)
        \o (IF ~ResponderCovers(p) THEN <<p>> ELSE <<>>)

-----------------------------------------------------------------------------
(* The claims *)

\* C1. Conservation: in every reachable state, for each of the five
\* resources, the two players' counts sum to what they summed to at reset;
\* and the trade of lines 237-242, applied to a pending offer whoever
\* accepts it, leaves each per-resource total unchanged.
C1_Conservation ==
    /\ \A r \in ResourceSet :
          Total(player_resources, r) = Total(initial_resources(seed), r)
    /\ Pending =>
          \A p \in Players, r \in ResourceSet :
              Total(execute_trade(player_resources, Proposer, p, Offered, Requested), r)
                  = Total(player_resources, r)

\* an [Accept] was given on a pending offer both sides can cover
C1_Witness ==
    /\ Pending
    /\ last_player = Recipient
    /\ accept_match(last_action)
    /\ ProposerCovers
    /\ ResponderCovers(Recipient)
    /\ Offered = [Wheat |-> 2, Ore |-> 1]

\* C2. Non-negativity: in every reachable state every stock count of every
\* player is >= 0; and whenever the two sufficiency checks pass for a pending
\* offer, the trade of lines 237-242 leaves every count >= 0.
C2_NonNegative ==
    /\ \A p \in Players, r \in ResourceSet : player_resources[p][r] >= 0
    /\ Pending =>
          \A p \in Players :
              (ProposerCovers /\ ResponderCovers(p)) =>
                  \A q \in Players, r \in ResourceSet :
                      execute_trade(player_resources, Proposer, p,
                                    Offered, Requested)[q][r] >= 0

\* an [Accept] was given on a pending offer the proposer can cover and the
\* recipient cannot
C2_Witness ==
    /\ Pending
    /\ ~ResponderCovers(Recipient)
    /\ ProposerCovers
    /\ last_player = Recipient
    /\ accept_match(last_action)

\* C3. Single-offer: a step taken while an offer is pending, whose text holds
\* neither [Accept] nor [Deny], leaves the pending offer as it was.
C3_SingleOffer ==
    [][(Pending /\ last_player' \in Players /\ NoMarker(last_action'))
          => current_offer' = current_offer]_vars

\* C4. An [Accept] by the recipient of a pending offer that both sides can
\* cover moves exactly the offered and the requested quantities between the
\* two ledgers.
C4_AcceptExecutes ==
    [][\A p \in Players :
          (ResponseBy(p) /\ accept_match(last_action')
              /\ ProposerCovers /\ ResponderCovers(p))
          => player_resources' = Swapped(p)]_vars

\* C5. Accept-failure purity: an [Accept] by the recipient of a pending offer
\* that a side cannot cover changes no stock and reports a fault naming
\* exactly the short sides.
C5_AcceptFailurePurity ==
    [][\A p \in Players :
          (ResponseBy(p) /\ accept_match(last_action')
              /\ ~(ProposerCovers /\ ResponderCovers(p)))
          => /\ player_resources' = player_resources
             /\ invalid_move' = ShortSides(p)]_vars

\* C6. No step ends in an unhandled exception.
C6_NoException == raised = "none"

\* C7. After an [Accept] by the recipient of a pending offer that both sides
\* can cover, no offer is pending.
C7_AcceptClears ==
    [][\A p \in Players :
          (ResponseBy(p) /\ accept_match(last_action')
              /\ ProposerCovers /\ ResponderCovers(p))
          => current_offer' = None]_vars

\* C8. After an [Accept] by the recipient of a pending offer that a side
\* cannot cover, no offer is pending.
C8_FailedAcceptClears ==
    [][\A p \in Players :
          (ResponseBy(p) /\ accept_match(last_action')
              /\ ~(ProposerCovers /\ ResponderCovers(p)))
          => current_offer' = None]_vars

\* C9. Deny: after a step by the recipient of a pending offer whose text
\* holds [Deny] and no [Accept], no offer is pending, no fault is reported and
\* no stock count has changed.
C9_Deny ==
    [][\A p \in Players :
          (ResponseBy(p) /\ deny_match(last_action') /\ ~accept_match(last_action'))
          => /\ current_offer' = None
             /\ invalid_move' = <<>>
             /\ player_resources' = player_resources]_vars

\* C10. Invalid response: a step whose text holds neither [Accept] nor [Deny]
\* reports a fault naming exactly the acting player when an offer is pending,
\* on every such step, and reports no fault when no offer is pending.
C10_InvalidResponse ==
    [][(last_player' \in Players /\ NoMarker(last_action'))
          => invalid_move' = IF Pending THEN <<last_player'>> ELSE <<>>]_vars

\* the third step of an episode was a plain reply by the recipient of a
\* pending offer, and was reported
C10_Witness ==
    /\ turn = 3
    /\ Pending
    /\ last_action = Chat
    /\ invalid_move = <<last_player>>
    /\ last_player = Recipient

\* C11. Valuation invariant: after reset and after every step, for each
\* player, current is the sum over the five resources of stock count times
\* private value, and change = current - initial.
C11_Valuation ==
    \A p \in Players :
        /\ inventory_value[p].current =
              player_resources[p]["Wheat"] * player_values[p]["Wheat"]
              + player_resources[p]["Wood"] * player_values[p]["Wood"]
              + player_resources[p]["Sheep"] * player_values[p]["Sheep"]
              + player_resources[p]["Brick"] * player_values[p]["Brick"]
              + player_resources[p]["Ore"] * player_values[p]["Ore"]
        /\ inventory_value[p].change =
              inventory_value[p].current - inventory_value[p].initial

\* two steps were taken and the latest was an [Accept] of a pending offer
C11_Witness ==
    /\ Pending
    /\ turn = 2
    /\ last_player = Recipient
    /\ accept_match(last_action)
    /\ ProposerCovers
    /\ ResponderCovers(Recipient)

\* C12. Outcome correctness: the outcome _determine_winnner resolves is a
\* draw if and only if the two players' changes are equal; otherwise the
\* single winner is the player with the strictly larger change.
C12_Outcome ==
    outcome # "none" =>
        /\ outcome \in {"draw", "winner0", "winner1"}
        /\ outcome = "draw" <=> inventory_value[0].change = inventory_value[1].change
        /\ outcome = "winner0" => inventory_value[0].change > inventory_value[1].change
        /\ outcome = "winner1" => inventory_value[1].change > inventory_value[0].change

\* player 1 gained more than player 0 and won
C12_Witness ==
    /\ outcome = "winner1"
    /\ inventory_value[0].change = 2
    /\ inventory_value[1].change = 5

\* C13. Outcome resolution timing: a step taken when the turn counter equals
\* the turn limit records a winner or a draw, and a step taken before the
\* limit records none.
C13_ResolvedAtLimit ==
    [][last_player' \in Players =>
          /\ turn = max_turns => outcome' # "none"
          /\ turn < max_turns => outcome' = "none"]_vars

\* C14. Response-only dispatch: a step that starts with an offer pending and
\* whose text holds [Accept] or [Deny] records no new offer, whatever else
\* the text holds; with a [Deny] and no [Accept] it ends with no offer pending.
C14_ResponseOnly ==
    [][(Pending /\ last_player' \in Players /\ ~NoMarker(last_action'))
          => /\ current_offer' \in {None, current_offer}
             /\ (deny_match(last_action') /\ ~accept_match(last_action'))
                    => ~Pending']_vars

\* the texts of Actions that hold a well-formed offer block, and the offer
\* each one states
WellFormedTexts ==
    {OfferSmall, OfferProposerShort, OfferResponderShort, OfferBothShort,
     DenyAndOffer, AcceptAndOffer}

StatedOffer(action) ==
    CASE action = OfferSmall ->
            [offered_items |-> [Wheat |-> 2, Ore |-> 1],
             requested_items |-> [Sheep |-> 3]]
      [] action = OfferProposerShort ->
            [offered_items |-> [Wood |-> 30], requested_items |-> [Brick |-> 1]]
      [] action = OfferResponderShort ->
            [offered_items |-> [Brick |-> 1], requested_items |-> [Wood |-> 30]]
      [] action = OfferBothShort ->
            [offered_items |-> [Wheat |-> 30, Ore |-> 30],
             requested_items |-> [Sheep |-> 30]]
      [] action \in {DenyAndOffer, AcceptAndOffer} ->
            [offered_items |-> [Wood |-> 1], requested_items |-> [Wheat |-> 1]]

\* C15. Recording a valid offer: when no offer is pending and player P sends a
\* well-formed offer block, after the step the pending offer has proposer P,
\* recipient 1-P, the quantities of the "I give" list as offered and those of
\* the "You give" list as requested, and no stock count has changed.
C15_RecordsOffer ==
    [][(~Pending /\ last_player' \in Players /\ last_action' \in WellFormedTexts)
          => /\ current_offer' =
                   <<[from_player |-> last_player',
                      to_player |-> 1 - last_player',
                      offer |-> StatedOffer(last_action')]>>
             /\ player_resources' = player_resources]_vars

\* player 1 made the offer of the prompt's example and it is pending
C15_Witness ==
    /\ Pending
    /\ last_action = OfferSmall
    /\ last_player = 1
    /\ Proposer = 1
    /\ Recipient = 0
    /\ Offered = [Wheat |-> 2, Ore |-> 1]
    /\ Requested = [Sheep |-> 3]

\* the texts of Actions whose [Offer] block fails to parse: an item that is
\* no quantity and name, no or two "; You give", an empty list, a quantity
\* of 0, an unknown resource
MalformedTexts ==
    {OfferMalformed, OfferNoSplit, OfferTwoSplits, OfferEmptyList, OfferZeroQty,
     OfferUnknown}

\* C16. Malformed offer is a silent no-op: when no offer is pending and the
\* text holds an [Offer] block that fails to parse, the step records no offer,
\* reports no fault and leaves stock and valuations unchanged.
C16_MalformedNoOp ==
    [][(~Pending /\ last_player' \in Players /\ last_action' \in MalformedTexts)
          => /\ current_offer' = None
             /\ invalid_move' = <<>>
             /\ player_resources' = player_resources
             /\ inventory_value' = inventory_value]_vars

\* an offer of 0 Wheat was sent with no offer pending, and none is pending
C16_Witness ==
    /\ ~Pending
    /\ last_action = OfferZeroQty
    /\ last_player = 0
    /\ turn = 2
    /\ invalid_move = <<>>
    /\ raised = "none"

\* C17. Stock is written only by trade execution: every step other than an
\* [Accept] of a pending offer that both sides can cover leaves both players'
\* ledgers unchanged.
C17_StockFrame ==
    [][(/\ last_player' \in Players
        /\ ~(/\ Pending
             /\ accept_match(last_action')
             /\ ProposerCovers
             /\ ResponderCovers(last_player')))
          => player_resources' = player_resources]_vars

\* an offer was made and then denied, and the ledgers are those of reset
C17_Witness ==
    /\ ~Pending
    /\ turn = 2
    /\ last_action = DenyText
    /\ raised = "none"
    /\ player_resources = initial_resources(seed)

\* C18. Parse idempotence: for every successfully parsed offer (every offer
\* that is pending), parsing its rendering by _offer_to_str yields that offer
\* again.
C18_ParseIdempotent ==
    Pending =>
        \A offered_keys \in KeyOrders(DOMAIN Offered),
           requested_keys \in KeyOrders(DOMAIN Requested) :
            _parse_offer(_offer_to_str(current_offer[1].offer,
                                       offered_keys, requested_keys))
                = <<current_offer[1].offer>>

\* the items of a list as its text states them: the runs of words between
\* commas and the word "and"
RECURSIVE stated_items(_, _, _)
stated_items(toks, cur, acc) ==
    IF toks = <<>> THEN Append(acc, cur)
    ELSE IF Head(toks) \in {",", "and"}
         THEN stated_items(Tail(toks), <<>>, Append(acc, cur))
         ELSE stated_items(Tail(toks), Append(cur, Head(toks)), acc)

PositiveLiterals == {"1", "2", "3", "5", "30"}

NameSpellings ==
    {"Wheat", "wheat", "WHEAT", "Wood", "wood", "WOOD", "Sheep", "sheep",
     "SHEEP", "Brick", "brick", "BRICK", "Ore", "ore", "ORE"}

\* '<positive integer> <one of the five resource names, any letter case>'
StatedItemOk(item) ==
    /\ Len(item) = 2
    /\ item[1] \in PositiveLiterals
    /\ item[2] \in NameSpellings

\* C19. List parsing is all-or-nothing: _parse_resource_list returns a map
\* only if every non-empty item of the list is a positive integer followed by
\* one of the five resource names in any letter case; one item with an
\* unknown name, a quantity <= 0, a non-integer quantity or a missing part
\* makes the whole list invalid.
C19_AllOrNothing ==
    (list_parsed # <<>> /\ list_parsed[1].ok) =>
        LET items == stated_items(list_text, <<>>, <<>>)
        IN  \A i \in 1..Len(items) :
                items[i] = <<>> \/ StatedItemOk(items[i])

\* the same for the lists in which "and" stands only as a word of its own
C19_WholeWordAnd ==
    (/\ list_parsed # <<>>
     /\ list_parsed[1].ok
     /\ \A k \in 1..Len(list_text) : and_split(list_text[k]) \in {<<",">>, <<list_text[k]>>}) =>
        LET items == stated_items(list_text, <<>>, <<>>)
        IN  \A i \in 1..Len(items) :
                items[i] = <<>> \/ StatedItemOk(items[i])

\* C20. Episode-fixed data is never modified by a step: after any sequence
\* of steps every player's private value table and every player's initial
\* valuation are what reset(seed) produced, and every private value lies in
\* 5..40.
C20_EpisodeFixed ==
    /\ player_values = initial_values(seed)
    /\ \A p \in Players :
          /\ inventory_value[p].initial = initial_inventory_value(seed)[p].initial
          /\ \A r \in ResourceSet :
                /\ player_values[p][r] >= 5
                /\ player_values[p][r] <= 40

\* steps have been taken up to the turn limit, an offer among them
C20_Witness ==
    /\ turn = max_turns
    /\ Pending
    /\ last_player \in Players

\* C21. Initial state: immediately after reset (no step taken since) no offer
\* is pending, every stock count of each player for each of the five resources
\* is in 5..25, each private value is within 20% of the resource's base value
\* and in 5..40, and for each player initial = current and change = 0.
C21_InitialState ==
    last_player = -1 =>
        /\ current_offer = None
        /\ \A p \in Players :
              /\ DOMAIN player_resources[p] = ResourceSet
              /\ \A r \in ResourceSet :
                    /\ player_resources[p][r] \in 5..25
                    /\ 5 * player_values[p][r] >= 4 * base_values[r]
                    /\ 5 * player_values[p][r] <= 6 * base_values[r]
                    /\ player_values[p][r] \in 5..40
              /\ inventory_value[p].initial = inventory_value[p].current
              /\ inventory_value[p].change = 0

\* a reset has just run with the largest seed
C21_Witness ==
    /\ last_player = -1
    /\ seed = MaxSeed
    /\ turn = 0

\* C22. Privacy of the initial prompt: the prompt generated at reset for
\* player p lists player p's own stock counts and player p's own private
\* values (and so does not depend on the other player's stock or values).
C22_PromptPrivacy ==
    last_player = -1 =>
        \A p \in Players :
            _generate_player_prompt(p).resource_value_list =
                [i \in 1..Len(resource_names) |->
                    <<player_resources[p][resource_names[i]], resource_names[i],
                      player_values[p][resource_names[i]]>>]

\* C23. Well-formedness of the live offer: whenever an offer is pending, its
\* proposer and recipient are different players, its offered and requested
\* maps are both non-empty, every key is one of the five resource names, and
\* every quantity is a strictly positive integer.
C23_LiveOfferWellFormed ==
    Pending =>
        /\ Proposer \in Players
        /\ Recipient \in Players
        /\ Proposer # Recipient
        /\ DOMAIN Offered # {}
        /\ DOMAIN Requested # {}
        /\ DOMAIN Offered \subseteq ResourceSet
        /\ DOMAIN Requested \subseteq ResourceSet
        /\ \A r \in DOMAIN Offered : Offered[r] \in Nat \ {0}
        /\ \A r \in DOMAIN Requested : Requested[r] \in Nat \ {0}

\* an offer has just been recorded from OfferSmall or OfferProposerShort
C23_Witness ==
    /\ Pending
    /\ last_action \in {OfferSmall, OfferProposerShort}
    /\ Cardinality(DOMAIN Offered) + Cardinality(DOMAIN Requested) >= 2

\* C24. Only the recipient can resolve an offer: whichever player the
\* scheduler hands the turn to, a step that clears the pending offer or moves
\* stock is a step of the pending offer's recipient.
C24_OnlyRecipientResolves ==
    [][(/\ Pending
        /\ last_player' \in Players
        /\ \/ current_offer' = None
           \/ player_resources' # player_resources)
       => last_player' = Recipient]_vars

\* C25. Marker priority: a response by the recipient of a pending offer whose
\* text holds both [Accept] and [Deny] is handled as an accept: the sufficiency
\* checks are made, and the trade is executed or a fault names the short
\* sides; it is never handled as a deny.
C25_AcceptWins ==
    [][\A p \in Players :
          (ResponseBy(p) /\ accept_match(last_action') /\ deny_match(last_action'))
          => /\ raised' = "none"
             /\ \/ /\ ProposerCovers /\ ResponderCovers(p)
                   /\ player_resources' = Swapped(p)
                \/ /\ ~(ProposerCovers /\ ResponderCovers(p))
                   /\ invalid_move' = ShortSides(p)
                   /\ player_resources' = player_resources]_vars

\* the numbers of the bracketed guess in a text, <<>> when it holds none
GuessNumbers(action) ==
    IF guess_match(action) = None THEN <<>>
    ELSE [i \in 1..Len(guess_match(action)[1]) |-> int(guess_match(action)[1][i])]

\* C26. Mastermind range check: a step whose text holds a bracketed guess of
\* code_length numbers, one of them outside 1..num_numbers (0 included), is
\* reported as an invalid move of the guessing player and sets no winner.
C26_RangeCheck ==
    [][(/\ mm_winners = <<>>
        /\ mm_action' # <<>>
        /\ Len(GuessNumbers(mm_action')) = code_length
        /\ \E i \in 1..code_length : GuessNumbers(mm_action')[i] \notin 1..num_numbers)
       => /\ mm_invalid_move' = <<mm_player_id>>
          /\ mm_winners' = <<>>]_vars

\* the number of places of 1..code_length at which f holds v and g does not
\* hold the same number as f
Unmatched(f, g, v) ==
    Cardinality({i \in 1..code_length : f[i] = v /\ f[i] # g[i]})

RECURSIVE SumMin(_, _, _)
SumMin(V, f, g) ==
    IF V = {} THEN 0
    ELSE LET v == CHOOSE x \in V : TRUE
             a == Unmatched(f, g, v)
             b == Unmatched(g, f, v)
         IN  (IF a < b THEN a ELSE b) + SumMin(V \ {v}, f, g)

\* the player whose guess the latest step scored
Guesser == CHOOSE p \in Players : guesses[p] # <<>>

\* C27. Mastermind peg scoring: after a guess of code_length numbers, black
\* pegs = the number of places where guess and opponent code are equal, white
\* pegs = the number of remaining guess numbers that can be matched one-to-one
\* with remaining code numbers of equal value, black + white <= code_length,
\* and the guesser is the winner exactly when black = code_length.
C27_PegScoring ==
    mm_pegs # <<>> =>
        LET guess == guesses[Guesser]
            code == secret_codes[1 - Guesser]
            black == mm_pegs[1].black_pegs
            white == mm_pegs[1].white_pegs
        IN  /\ black = Cardinality({i \in 1..code_length : guess[i] = code[i]})
            /\ white = SumMin(0..(num_numbers + 1), guess, code)
            /\ black + white <= code_length
            /\ mm_winners = <<Guesser>> <=> black = code_length
            /\ mm_winners # <<>> => mm_winners = <<Guesser>>

\* a guess with a repeated number scored one black and one white peg
C27_Witness ==
    /\ mm_pegs # <<>>
    /\ mm_pegs[1].black_pegs = 1
    /\ mm_pegs[1].white_pegs = 1
    /\ \E i, j \in 1..code_length :
          i # j /\ guesses[Guesser][i] = guesses[Guesser][j]

\* the message holds the word at some place, letter by letter, whatever the
\* case of each letter
Mentions(action, word) ==
    \E at \in 0..(Len(action) - Len(word)) :
        \A k \in 1..Len(word) : lower_char(action[at + k]) = lower_char(word[k])

\* C28. Don't Say It outcome: after reset the two players' secret words are
\* different; after a step the opponent of the acting player is the winner if
\* and only if the acting player's message contains the opponent's secret
\* word, whatever the case of its letters; a message that contains the acting
\* player's own secret word and not the opponent's sets no winner.
C28_Outcome ==
    /\ target_words[0] # target_words[1]
    /\ dsi_player_id \in Players =>
          LET own == target_words[dsi_player_id]
              theirs == target_words[1 - dsi_player_id]
          IN  /\ dsi_winners = <<1 - dsi_player_id>> <=> Mentions(dsi_action, theirs)
              /\ dsi_winners \in {<<>>, <<1 - dsi_player_id>>}
              /\ (Mentions(dsi_action, own) /\ ~Mentions(dsi_action, theirs))
                    => dsi_winners = <<>>

\* the opponent won by a message in capitals
C28_Witness ==
    /\ dsi_player_id \in Players
    /\ dsi_action = <<"H", "E", "A", "R", "T">>
    /\ dsi_winners = <<1 - dsi_player_id>>

====
